---------------------------- MODULE Spec2Model ----------------------------
(***************************************************************************)
(* A model of the basic shell of src/shell.c: the read loop of main, the   *)
(* tokenizer, the builtins, fork / exec / wait, the redirection scan of    *)
(* ParseCommand on the child's descriptor table, and the exit status.      *)
(*                                                                         *)
(* Strings are sequences of one-character strings; the line buffer is a    *)
(* sequence of characters in which NUL marks the C string terminator.      *)
(* Positions in a buffer are 1-based: C offset k is position k + 1.        *)
(*                                                                         *)
(* Spec is the interpreter on a set of command lines.  SpecRead is the     *)
(* read of one line of any length; SpecParse is ParseCommand and           *)
(* CleanupRedirection applied to every short line over a few tokens.       *)
(* SpecArray is the token array of a line of any number of tokens, and     *)
(* SpecReplace is ReplaceExitStatusVariable on the tokens of an echo line. *)
(***************************************************************************)
EXTENDS Integers, Sequences, FiniteSets, TLC

VARIABLES
  pc,        \* where main is: "read" (fgets), "wait" (waitpid), "exited", "crashed"
  status,    \* main's `int status`
  cwd,       \* the interpreter's working directory
  fs,        \* the regular files: path -> sequence of chunks written
  child,     \* the child forked for the current line (stage "none": no child)
  unreaped,  \* children forked for earlier lines and never waited for
  lastRead,  \* what the last fgets gave ("none", "line", "eof", "eintr", "error")
             \* and what main did about it ("handle", "retry", "report", or
             \* the message of a cd that failed)
  shellExit, \* how the interpreter ended: -1 while it runs, else its exit code
  oldact,    \* the disposition of SIGINT the interpreter was started with
  openFds,   \* the interpreter's own descriptor table
  call       \* one call of a function on its own: its input and its result

vars == <<pc, status, cwd, fs, child, unreaped, lastRead, shellExit,
          oldact, openFds, call>>

\* what no step of main, of the child or of waitpid changes
frame == <<oldact, openFds, call>>

----------------------------------------------------------------------------
(* Bounds of the model *)

\* widest run of spaces between two tokens of an input line
MaxGap == 2
\* chunks a file can hold before a write fails (the disk is full)
MaxFileLen == 2
\* children left unreaped before SIGINT stops interrupting waitpid
MaxUnreaped == 1
\* size of a process's descriptor table (open files limit)
FdLimit == 8
\* longest input line, in characters before its newline
MaxLineLen == 2050
\* most tokens of a command line given to ParseCommand on its own
MaxTokens == 4
\* most tokens of a line whose token array is followed
MaxArgs == 40
\* most arguments of an echo line given to ReplaceExitStatusVariable on its own
MaxEchoArgs == 3

----------------------------------------------------------------------------
(* Characters and words *)

NUL == "NUL"
SP == " "
NL == "NL"

W_cd == <<"c", "d">>
W_exit == <<"e", "x", "i", "t">>
W_echo == <<"e", "c", "h", "o">>
W_t == <<"t">>
W_no == <<"n", "o">>
W_dot == <<".">>
W_dotdot == <<".", ".">>
W_d == <<"d">>
W_slash == <<"/">>
W_slashd == <<"/", "d">>
W_a == <<"/", "a">>
W_b == <<"/", "b">>
W_var == <<"$", "?">>
W_xvar == <<"x", "$", "?">>
W_empty == <<>>

OP_in == <<"<">>
OP_out == <<">">>
OP_out1 == <<"1", ">">>
OP_app == <<">", ">">>
OP_err == <<"2", ">">>
OP_outerr == <<"&", ">">>

RECURSIVE Spaces(_)
Spaces(n) == IF n = 0 THEN <<>> ELSE <<SP>> \o Spaces(n - 1)

\* the words of ws with g spaces between two of them
RECURSIVE Join(_, _)
Join(ws, g) ==
  IF Len(ws) = 0 THEN <<>>
  ELSE IF Len(ws) = 1 THEN ws[1]
  ELSE ws[1] \o Spaces(g) \o Join(Tail(ws), g)

----------------------------------------------------------------------------
(* C strings in a buffer *)

\* the C string that starts at position p of buf: the characters up to the
\* first NUL (or to the end of the modelled part of the buffer)
RECURSIVE StrAt(_, _)
StrAt(buf, p) ==
  IF p < 1 \/ p > Len(buf) \/ buf[p] = NUL THEN <<>>
  ELSE <<buf[p]>> \o StrAt(buf, p + 1)

\* strcpy(buf + p, s): Len(s) characters and the terminating NUL are written
\* from position p on, whatever was there (shell.c:604)
Strcpy(buf, p, s) ==
  [i \in 1..Len(buf) |->
     IF i >= p /\ i < p + Len(s) THEN s[i - p + 1]
     ELSE IF i = p + Len(s) THEN NUL
     ELSE buf[i]]

Digit(n) == CASE n = 0 -> "0" [] n = 1 -> "1" [] n = 2 -> "2" [] n = 3 -> "3"
              [] n = 4 -> "4" [] n = 5 -> "5" [] n = 6 -> "6" [] n = 7 -> "7"
              [] n = 8 -> "8" [] n = 9 -> "9"

\* sprintf(status_str, "%d", n) (shell.c:600)
RECURSIVE DecimalString(_)
DecimalString(n) ==
  IF n < 0 THEN <<"-">> \o DecimalString(0 - n)
  ELSE IF n < 10 THEN <<Digit(n)>>
  ELSE DecimalString(n \div 10) \o <<Digit(n % 10)>>

----------------------------------------------------------------------------
(* Reading and tokenizing a line: main (shell.c:57-71), TokenizeCommandLine *)

\* the buffer after fgets stored the line and its newline, and main replaced
\* the last character by NUL (shell.c:67)
LineBuffer(l) ==
  LET got == l \o <<NL, NUL>>
      n == Len(l) + 1
  IN  [got EXCEPT ![n] = NUL]

\* strtok(.., " ") from position p: skip the spaces, then the token runs to the
\* next space, which is overwritten by NUL, or to the end of the string
RECURSIVE SkipSpaces(_, _)
SkipSpaces(buf, p) ==
  IF p <= Len(buf) /\ buf[p] = SP THEN SkipSpaces(buf, p + 1) ELSE p

RECURSIVE TokenEnd(_, _)
TokenEnd(buf, p) ==
  IF p <= Len(buf) /\ buf[p] # SP /\ buf[p] # NUL THEN TokenEnd(buf, p + 1) ELSE p

\* the tokens (positions of their first characters) and the buffer strtok
\* leaves; toks is the DynamicArray's data, in order of AppendElement
RECURSIVE TokenizeFrom(_, _, _)
TokenizeFrom(buf, p, toks) ==
  LET s == SkipSpaces(buf, p)
      e == TokenEnd(buf, s)
  IN  IF s > Len(buf) \/ buf[s] = NUL THEN [buf |-> buf, toks |-> toks]
      ELSE IF e <= Len(buf) /\ buf[e] = SP
           THEN TokenizeFrom([buf EXCEPT ![e] = NUL], e + 1, Append(toks, s))
           ELSE TokenizeFrom(buf, e, Append(toks, s))

TokenizeCommandLine(buf) == TokenizeFrom(buf, 1, <<>>)

\* the strings of the tokens toks of buf (0 is a NULL slot)
TokenStrings(buf, toks) == [i \in 1..Len(toks) |-> StrAt(buf, toks[i])]

----------------------------------------------------------------------------
(* The file system and a process's descriptor table *)

\* the directories; they exist throughout
Dirs == {W_slash, W_slashd}

\* the absolute path a name stands for in directory dir
Canon(dir, name) ==
  IF name = W_dot THEN dir
  ELSE IF name = W_dotdot THEN W_slash
  ELSE IF Len(name) > 0 /\ name[1] = "/" THEN name
  ELSE IF dir = W_slash THEN W_slash \o name
  ELSE dir \o W_slash \o name

\* chdir(name) from dir: the new directory, or <<>> when chdir fails
Chdir(dir, name) ==
  IF Len(name) > 0 /\ Canon(dir, name) \in Dirs THEN Canon(dir, name) ELSE <<>>

\* descriptor tables map 0..FdLimit-1 to the index of an open file
\* description in descs, 0 for a closed descriptor; description 1 is the
\* terminal the interpreter was started on
TTY == <<"t", "t", "y">>
TtyDesc == [path |-> TTY, mode |-> "rw", off |-> 0]
ShellFds == [fd \in 0..(FdLimit - 1) |-> IF fd <= 2 THEN 1 ELSE 0]

LowestFree(fds) ==
  IF \E fd \in DOMAIN fds : fds[fd] = 0
  THEN CHOOSE fd \in DOMAIN fds : fds[fd] = 0 /\ \A g \in DOMAIN fds : fds[g] = 0 => fd <= g
  ELSE -1

ValidFd(fds, fd) == fd \in DOMAIN fds /\ fds[fd] # 0

\* dup(old): the lowest free descriptor, or -1
Dup(c, old) ==
  LET new == IF ValidFd(c.fds, old) THEN LowestFree(c.fds) ELSE -1
  IN  IF new < 0 THEN [c |-> c, fd |-> -1]
      ELSE [c |-> [c EXCEPT !.fds[new] = c.fds[old]], fd |-> new]

\* dup2(old, new): new refers to old's description, or -1; c.nodup holds the
\* descriptors onto which the system fails to duplicate (EINTR, EIO)
Dup2(c, old, new) ==
  IF ~ValidFd(c.fds, old) \/ new \notin DOMAIN c.fds \/ new \in c.nodup
  THEN [c |-> c, fd |-> -1]
  ELSE [c |-> [c EXCEPT !.fds[new] = c.fds[old]], fd |-> new]

\* close(fd)
Close(c, fd) == IF ValidFd(c.fds, fd) THEN [c EXCEPT !.fds[fd] = 0] ELSE c

\* open(name, flags): mode "r" is O_RDONLY, "w" is O_CREAT|O_TRUNC|O_WRONLY,
\* "a" is O_CREAT|O_WRONLY|O_APPEND
Open(c, name, mode) ==
  LET p == Canon(c.cwd, name)
      fd == LowestFree(c.fds)
      fails == \/ Len(name) = 0
               \/ fd < 0
               \/ p \in Dirs /\ mode # "r"
               \/ p \notin Dirs /\ mode = "r" /\ p \notin DOMAIN c.fs
      files == IF p \in Dirs \/ mode = "r" THEN c.fs
               ELSE IF mode = "w" \/ p \notin DOMAIN c.fs
                    THEN [q \in DOMAIN c.fs \cup {p} |-> IF q = p THEN <<>> ELSE c.fs[q]]
                    ELSE c.fs
      d == [path |-> p, mode |-> mode, off |-> 0]
  IN  IF fails THEN [c |-> c, fd |-> -1]
      ELSE [c |-> [c EXCEPT !.fs = files,
                            !.descs = Append(c.descs, d),
                            !.fds[fd] = Len(c.descs) + 1],
            fd |-> fd]

\* the content of a file after chunk is written at offset off (0-based);
\* a gap left by a truncation reads as zero bytes
RECURSIVE Zeros(_)
Zeros(n) == IF n <= 0 THEN <<>> ELSE <<"zero">> \o Zeros(n - 1)

WriteAt(content, off, chunk) ==
  IF off >= Len(content) THEN content \o Zeros(off - Len(content)) \o <<chunk>>
  ELSE [content EXCEPT ![off + 1] = chunk]

\* write(fd, chunk): to the terminal, or into the file at the description's
\* offset (at the end for O_APPEND); fails on a closed or read-only
\* descriptor, on a directory and on a full disk
Write(c, fd, chunk) ==
  IF ~ValidFd(c.fds, fd) THEN [c |-> c, ok |-> FALSE]
  ELSE LET id == c.fds[fd]
           d == c.descs[id]
       IN  IF d.path = TTY THEN [c |-> [c EXCEPT !.tty = Append(c.tty, chunk)], ok |-> TRUE]
           ELSE IF d.mode = "r" \/ d.path \in Dirs \/ d.path \notin DOMAIN c.fs
                THEN [c |-> c, ok |-> FALSE]
           ELSE LET old == c.fs[d.path]
                    at == IF d.mode = "a" THEN Len(old) ELSE d.off
                    new == WriteAt(old, at, chunk)
                IN  IF Len(new) > MaxFileLen THEN [c |-> c, ok |-> FALSE]
                    ELSE [c |-> [c EXCEPT !.fs[d.path] = new,
                                          !.descs[id].off = at + 1],
                          ok |-> TRUE]

\* PrintError / fprintf(stderr, ..) / perror: one diagnostic on descriptor 2
PrintError(c) == Write(c, 2, "diag").c

----------------------------------------------------------------------------
(* The Process of a command line and its redirections.  A context c holds   *)
(* what the child works on: its copy of the line buffer (buf), the token     *)
(* array (toks, of which the first len are in use; 0 is NULL), its           *)
(* descriptor table (fds, descs), the Process fields (proc), and the world   *)
(* it shares with everyone: the files (fs), the terminal (tty).              *)

\* InitProcess (shell.c:385-418): the streams are marked unused and the three
\* standard descriptors are duplicated; ok is FALSE when it returns NULL
InitProcess(c) ==
  LET d0 == Dup(c, 0)
      d1 == Dup(d0.c, 1)
      d2 == Dup(d1.c, 2)
  IN  IF d0.fd < 0 THEN [ok |-> FALSE, c |-> c]
      ELSE IF d1.fd < 0 THEN [ok |-> FALSE, c |-> Close(d0.c, d0.fd)]
      ELSE IF d2.fd < 0 THEN [ok |-> FALSE, c |-> Close(Close(d1.c, d0.fd), d1.fd)]
      ELSE [ok |-> TRUE,
            c |-> [d2.c EXCEPT !.proc = [orig_stdin |-> d0.fd, orig_stdout |-> d1.fd,
                                         orig_stderr |-> d2.fd,
                                         in_fd |-> -1, out_fd |-> -1, err_fd |-> -1]]]

\* GetRedirectType (shell.c:508-526)
GetRedirectType(op) ==
  IF op = OP_in THEN "kRedirectIn"
  ELSE IF op = OP_out \/ op = OP_out1 THEN "kRedirectOut"
  ELSE IF op = OP_app THEN "kRedirectAppend"
  ELSE IF op = OP_err THEN "kRedirectErr"
  ELSE IF op = OP_outerr THEN "kRedirectOutErr"
  ELSE "kNone"

\* the three steps CleanupRedirection takes for one saved stream
\* (shell.c:559-565): r.ret is -1 once a dup2 has failed
RestoreStream(r, field, stdfd) ==
  IF r.ret < 0 \/ r.c.proc[field] < 0 THEN r
  ELSE LET d == Dup2(r.c, r.c.proc[field], stdfd)
       IN  IF d.fd < 0 THEN [ret |-> -1, c |-> r.c]
           ELSE [ret |-> 0,
                 c |-> [Close(d.c, r.c.proc[field]) EXCEPT !.proc[field] = -1]]

CloseStream(c, field) ==
  IF c.proc[field] >= 0 THEN [Close(c, c.proc[field]) EXCEPT !.proc[field] = -1] ELSE c

\* CleanupRedirection (shell.c:539-584)
CleanupRedirection(c) ==
  LET closed == CloseStream(CloseStream(CloseStream(c, "in_fd"), "out_fd"), "err_fd")
      r0 == RestoreStream([ret |-> 0, c |-> closed], "orig_stdin", 0)
      r1 == RestoreStream(r0, "orig_stdout", 1)
  IN  RestoreStream(r1, "orig_stderr", 2)

\* a slot that keeps its first redirection: a later one for the same slot is
\* not installed
RedirectSlotKeepsFirst(r, newfd, field, stdfd) ==
  IF r.ret < 0 \/ r.c.proc[field] >= 0 THEN r
  ELSE LET d == Dup2(r.c, newfd, stdfd)
       IN  [ret |-> IF d.fd < 0 THEN -1 ELSE 0,
            c |-> [d.c EXCEPT !.proc[field] = d.fd]]

\* one case of SetupRedirection's switch: the slot's earlier descriptor is
\* closed, then newfd is duplicated onto the standard descriptor
RedirectSlot(r, newfd, field, stdfd) ==
  IF r.ret < 0 THEN r
  ELSE LET c1 == IF r.c.proc[field] >= 0 THEN Close(r.c, r.c.proc[field]) ELSE r.c
           d == Dup2(c1, newfd, stdfd)
       IN  [ret |-> IF d.fd < 0 THEN -1 ELSE 0,
            c |-> [d.c EXCEPT !.proc[field] = d.fd]]

\* SetupRedirection (shell.c:434-495); on redirect_error the redirections are
\* cleaned up, with a diagnostic when that fails too
SetupRedirection(c, newfd, rtype) ==
  LET r0 == [ret |-> 0, c |-> c]
      r == CASE rtype = "kRedirectIn" -> RedirectSlot(r0, newfd, "in_fd", 0)
             [] rtype \in {"kRedirectOut", "kRedirectAppend"} ->
                  RedirectSlot(r0, newfd, "out_fd", 1)
             [] rtype = "kRedirectErr" -> RedirectSlot(r0, newfd, "err_fd", 2)
             [] rtype = "kRedirectOutErr" ->
                  RedirectSlot(RedirectSlot(r0, newfd, "out_fd", 1), newfd, "err_fd", 2)
             [] OTHER -> r0
  IN  IF r.ret = 0 THEN r
      ELSE LET cl == CleanupRedirection(r.c)
           IN  [ret |-> -1, c |-> IF cl.ret < 0 THEN PrintError(cl.c) ELSE cl.c]

\* the open mode ParseCommand uses for each operator (shell.c:288-346)
OpenMode(rtype) ==
  IF rtype = "kRedirectIn" THEN "r"
  ELSE IF rtype = "kRedirectAppend" THEN "a"
  ELSE "w"

\* ReplaceExitStatusVariable (shell.c:596-607) from token i on (1-based):
\* the buffer after each token equal to $? had the status string copied over it
RECURSIVE ReplaceFrom(_, _, _, _, _)
ReplaceFrom(buf, toks, len, i, str) ==
  IF i > len THEN buf
  ELSE IF StrAt(buf, toks[i]) = W_var
       THEN ReplaceFrom(Strcpy(buf, toks[i], str), toks, len, i + 1, str)
       ELSE ReplaceFrom(buf, toks, len, i + 1, str)

ReplaceExitStatusVariable(buf, toks, len, st) ==
  ReplaceFrom(buf, toks, len, 1, DecimalString(st))

\* the token array after the element at index i (1-based) was removed
\* (shell.c:355-359): the later elements move down, the last slot is NULL
RemoveElement(toks, len, i) ==
  [k \in 1..Len(toks) |->
     IF k >= i /\ k < len THEN toks[k + 1]
     ELSE IF k = len THEN 0
     ELSE toks[k]]

\* the token array after the operator at index i and its target were
\* removed (shell.c:354-360)
RemovePair(c, i) ==
  [c EXCEPT !.toks = RemoveElement(RemoveElement(c.toks, c.len, i), c.len - 1, i),
            !.len = c.len - 2]

\* what ParseCommand returns when the scan gives up: -1, after a diagnostic
ScanFails(c, why) == [ret |-> -1, c |-> PrintError(c), why |-> why]

RECURSIVE ParseScan(_, _)

\* a scan that, after a redirection was applied and removed, goes on with the
\* token after the one that moved into its place
RedirectedSkipping(i, newfd, s) ==
  IF s.ret < 0 THEN ScanFails(Close(s.c, newfd), "failed redirection")
  ELSE ParseScan(RemovePair(Close(s.c, newfd), i), i + 1)

\* the redirection scan of ParseCommand from token i on (shell.c:274-362,
\* i is 1-based): Redirected is the scan after SetupRedirection returned s
\* for newfd, Opened the scan after open returned o
Redirected(i, newfd, s) ==
  IF s.ret < 0 THEN ScanFails(Close(s.c, newfd), "failed redirection")
  ELSE ParseScan(RemovePair(Close(s.c, newfd), i), i)

Opened(c, i, rtype, o) ==
  IF o.fd < 0 THEN ScanFails(c, "failed open")
  ELSE Redirected(i, o.fd, SetupRedirection(o.c, o.fd, rtype))

\* Operator without the check of shell.c:280: an operator that no token
\* follows is passed over like any other token
OperatorUnchecked(c, i, rtype) ==
  IF rtype = "kNone" \/ i + 1 > c.len THEN ParseScan(c, i + 1)
  ELSE Opened(c, i, rtype, Open(c, StrAt(c.buf, c.toks[i + 1]), OpenMode(rtype)))

Operator(c, i, rtype) ==
  IF rtype = "kNone" THEN ParseScan(c, i + 1)
  ELSE IF i + 1 > c.len THEN ScanFails(c, "missing redirection target")
  ELSE Opened(c, i, rtype, Open(c, StrAt(c.buf, c.toks[i + 1]), OpenMode(rtype)))

ParseScan(c, i) ==
  IF i > c.len THEN [ret |-> 0, c |-> c, why |-> ""]
  ELSE Operator(c, i, GetRedirectType(StrAt(c.buf, c.toks[i])))

\* the end of ParseCommand (shell.c:364-372) for the command name cmd: the
\* status is substituted when it is echo; cmd and argv are what execvp is given
Resolved(c, cmd, buf) ==
  [ret |-> 0, c |-> [c EXCEPT !.buf = buf], why |-> "", null |-> FALSE, cmd |-> cmd,
   argv |-> [k \in 1..c.len |-> StrAt(buf, c.toks[k])]]

Resolve(c, cmd, st) ==
  Resolved(c, cmd, IF cmd = W_echo
                   THEN ReplaceExitStatusVariable(c.buf, c.toks, c.len, st)
                   ELSE c.buf)

\* null is TRUE when the command name read at shell.c:364-365 is a NULL
\* pointer, which strcmp then dereferences
Scanned(r, st) ==
  IF r.ret < 0 \/ r.c.toks[1] = 0
  THEN [ret |-> r.ret, c |-> r.c, why |-> r.why, null |-> r.ret = 0,
        cmd |-> <<>>, argv |-> <<>>]
  ELSE Resolve(r.c, StrAt(r.c.buf, r.c.toks[1]), st)

\* ParseCommand (shell.c:266-373)
ParseCommand(c, st) ==
  IF c.len = 0
  THEN [ret |-> 0, c |-> c, why |-> "", null |-> FALSE, cmd |-> <<>>, argv |-> <<>>]
  ELSE Scanned(ParseScan(c, 1), st)

----------------------------------------------------------------------------
(* execvp and the wait status *)

\* the commands found on PATH: echo writes its arguments to descriptor 1,
\* t is any other program
PathCommands == {W_echo, W_t}

\* execvp(cmd, ..): "ok", or the errno it fails with.  A name with a slash is
\* a path: the files and directories of the model are not executable
ExecResult(files, dir, cmd) ==
  IF Len(cmd) = 0 THEN "ENOENT"
  ELSE IF \E i \in 1..Len(cmd) : cmd[i] = "/"
       THEN IF Canon(dir, cmd) \in Dirs \/ Canon(dir, cmd) \in DOMAIN files
            THEN "EACCES" ELSE "ENOENT"
  ELSE IF cmd \in PathCommands THEN "ok"
  ELSE "ENOENT"

\* exit codes a program other than echo ends with
ExitCodes == {0, 1, 42}
\* signals that end a child: SIGINT, SIGKILL; a handler cannot catch SIGKILL
SIGINT == 2
Signals == {SIGINT, 9}
Uncatchable == {9}
\* the signal of a NULL pointer dereference
SIGSEGV == 11
EXIT_FAILURE == 1
\* errno's EINTR, the value of the condition `errno = EINTR` (shell.c:58)
EINTR == 4

\* how a process ended: it called exit(n), or signal n ended it
Exited(code) == [how |-> "exit", n |-> code, core |-> FALSE]
Killed(sig, core) == [how |-> "signal", n |-> sig, core |-> core]

\* the wait status waitpid stores for a child that called exit(code), and for
\* one ended by sig
WExited(code) == (code % 256) * 256
WSignaled(sig, core) == sig + (IF core THEN 128 ELSE 0)
WaitStatus(end) ==
  IF end.how = "exit" THEN WExited(end.n) ELSE WSignaled(end.n, end.core)

\* the macros of <sys/wait.h> used at shell.c:147-150
WIFEXITED(w) == (w % 128) = 0
WEXITSTATUS(w) == (w \div 256) % 256
WIFSIGNALED(w) == (w % 128) # 0 /\ (w % 128) # 127
WTERMSIG(w) == w % 128

\* decoding that takes the signal number itself for the status
DecodeWithoutOffset(w) ==
  IF WIFEXITED(w) THEN WEXITSTATUS(w)
  ELSE IF WIFSIGNALED(w) THEN WTERMSIG(w)
  ELSE w

\* the status main records from a wait status (shell.c:147-153)
DecodeWaitStatus(w) ==
  IF WIFEXITED(w) THEN WEXITSTATUS(w)
  ELSE IF WIFSIGNALED(w) THEN 128 + WTERMSIG(w)
  ELSE w

----------------------------------------------------------------------------
(* The input lines *)

\* token lists of the command lines the interpreter is given
CommandLines ==
  { <<W_cd>>, <<W_cd, W_dot>>, <<W_cd, W_d>>, <<W_cd, W_dotdot>>, <<W_exit>>,
    <<W_t>>, <<W_no>>, <<W_slashd>>,
    <<W_echo, W_var>>, <<W_echo, W_var, W_var>>, <<W_echo, W_xvar>>, <<W_t, W_var>>,
    <<W_echo, OP_out, W_a>>, <<W_echo, OP_app, W_a>>,
    <<W_echo, OP_out, W_a, OP_out, W_b>>, <<W_echo, OP_outerr, W_a, OP_out1, W_b>>,
    <<W_t, OP_in, W_a>>, <<W_t, OP_out, W_slashd>>,
    <<W_t, OP_in>>, <<W_echo, OP_out>>, <<W_no, OP_err, W_a>>,
    <<W_echo, OP_err, W_a, OP_out>>,
    <<OP_out, W_a, W_exit>>, <<OP_out, W_a>> }

\* the lines fgets can return: the empty line, lines of spaces only, and the
\* command lines with 1..MaxGap spaces between their tokens
Lines ==
  {<<>>} \cup {Spaces(g) : g \in 1..MaxGap}
         \cup {Join(ws, g) : ws \in CommandLines, g \in 1..MaxGap}

\* the token array and the buffer main has after TokenizeCommandLine
Tokenized == [l \in Lines |-> TokenizeCommandLine(LineBuffer(l))]

----------------------------------------------------------------------------
(* The interpreter: main (shell.c:39-159) *)

NoProc == [orig_stdin |-> -1, orig_stdout |-> -1, orig_stderr |-> -1,
           in_fd |-> -1, out_fd |-> -1, err_fd |-> -1]

NoChild == [stage |-> "none", buf |-> <<>>, toks |-> <<>>, len |-> 0,
            fds |-> ShellFds, descs |-> <<TtyDesc>>, proc |-> NoProc,
            tty |-> <<>>, st |-> 0, cmd |-> <<>>, argv |-> <<>>,
            why |-> "", end |-> [how |-> "none", n |-> 0, core |-> FALSE],
            sigint |-> "sigint_handler"]

\* the context a child works on: the child and the world around it; and the
\* child of a context
Context(ch) == ch @@ [fs |-> fs, cwd |-> cwd, nodup |-> {}]
Process(c) == [k \in DOMAIN NoChild |-> c[k]]

\* the dispositions a process can be started with: a handler does not
\* survive execve, SIG_IGN does
Dispositions == {"SIG_DFL", "SIG_IGN"}

NoCall == [fn |-> "none"]

\* the interpreter when it enters its loop (shell.c:39-54)
InitShell ==
  /\ pc = "read"
  /\ status = 0
  /\ cwd = W_slash
  /\ fs = <<>>
  /\ child = NoChild
  /\ unreaped = 0
  /\ lastRead = [got |-> "none", did |-> "none"]
  /\ shellExit = -1
  /\ oldact \in Dispositions
  /\ openFds = ShellFds

Init == InitShell /\ call = NoCall

\* the value main reads from args[0] when the token array is empty
\* (shell.c:79-80): the array's storage was never written, so the pointer is
\* whatever malloc left there; the read faults, or finds some string
Fault == <<"SIGSEGV">>
Uninitialized == {Fault, W_cd, W_exit, W_empty}

\* the strings args[0] can be for the tokenized line tk
FirstArg(tk) ==
  IF Len(tk.toks) = 0 THEN Uninitialized ELSE {StrAt(tk.buf, tk.toks[1])}

\* fgets returns NULL (shell.c:57-64): at end of input, when a signal
\* interrupted the read, or on a read error.  `errno = EINTR` assigns, and the
\* value assigned is the condition: main clears the stream's flags and
\* retries when it is not 0, and reports the error otherwise.  Either way the
\* loop continues
ReadFails(kind) ==
  /\ pc = "read"
  /\ lastRead' = [got |-> kind, did |-> IF EINTR # 0 THEN "retry" ELSE "report"]
  /\ pc' = "read"
  /\ UNCHANGED <<status, cwd, fs, child, unreaped, shellExit, frame>>

\* fgets returns the line l: what every way on from there has in common
Got(l) ==
  /\ pc = "read"
  /\ lastRead' = [got |-> "line", did |-> "handle"]
  /\ l \in Lines

\* the empty line (shell.c:69-71)
EmptyLine(l) ==
  /\ Got(l)
  /\ LineBuffer(l)[1] = NUL
  /\ UNCHANGED <<pc, status, cwd, fs, child, unreaped, shellExit, frame>>

\* TokenizeCommandLine returns NULL: no memory (shell.c:73-77)
TokenizeFails(l) ==
  /\ Got(l)
  /\ LineBuffer(l)[1] # NUL
  /\ UNCHANGED <<pc, status, cwd, fs, child, unreaped, shellExit, frame>>

\* the read of args[0] faults: the interpreter is killed by SIGSEGV
ReadFaults(l) ==
  /\ Got(l)
  /\ LineBuffer(l)[1] # NUL
  /\ Fault \in FirstArg(Tokenized[l])
  /\ pc' = "crashed"
  /\ UNCHANGED <<status, cwd, fs, child, unreaped, shellExit, frame>>

\* a cd that reports its failure and leaves the status as it was
CdKeepsStatus(l) ==
  /\ pc = "read"
  /\ l \in Lines
  /\ LineBuffer(l)[1] # NUL
  /\ LET tk == Tokenized[l]
         to == IF Len(tk.toks) < 2 THEN <<>> ELSE Chdir(cwd, StrAt(tk.buf, tk.toks[2]))
     IN  /\ W_cd \in FirstArg(tk)
         /\ cwd' = IF Len(tk.toks) < 2 \/ to = <<>> THEN cwd ELSE to
         /\ lastRead' = [got |-> "line",
                         did |-> IF Len(tk.toks) < 2 THEN "cd: missing operand"
                                 ELSE IF to = <<>> THEN "cd: chdir failed"
                                 ELSE "handle"]
  /\ UNCHANGED <<pc, status, fs, child, unreaped, shellExit, frame>>

\* the builtin cd (shell.c:80-95)
Cd(l) ==
  /\ pc = "read"
  /\ l \in Lines
  /\ LineBuffer(l)[1] # NUL
  /\ LET tk == Tokenized[l]
         to == IF Len(tk.toks) < 2 THEN <<>> ELSE Chdir(cwd, StrAt(tk.buf, tk.toks[2]))
     IN  /\ W_cd \in FirstArg(tk)
         /\ IF Len(tk.toks) < 2 \/ to = <<>>
            THEN status' = 1 /\ cwd' = cwd
            ELSE status' = status /\ cwd' = to
         /\ lastRead' = [got |-> "line",
                         did |-> IF Len(tk.toks) < 2 THEN "cd: missing operand"
                                 ELSE IF to = <<>> THEN "cd: chdir failed"
                                 ELSE "handle"]
  /\ UNCHANGED <<pc, fs, child, unreaped, shellExit, frame>>

\* an exit that ends the interpreter with the failure value whatever the
\* status is
ExitWithFailure(l) ==
  /\ Got(l)
  /\ LineBuffer(l)[1] # NUL
  /\ W_exit \in FirstArg(Tokenized[l])
  /\ pc' = "exited"
  /\ shellExit' = EXIT_FAILURE
  /\ UNCHANGED <<status, cwd, fs, child, unreaped, frame>>

\* the builtin exit (shell.c:96-99)
Exit(l) ==
  /\ Got(l)
  /\ LineBuffer(l)[1] # NUL
  /\ W_exit \in FirstArg(Tokenized[l])
  /\ pc' = "exited"
  /\ shellExit' = status % 256
  /\ UNCHANGED <<status, cwd, fs, child, unreaped, frame>>

\* any other first token: fork (shell.c:101)
IsExternal(tk) == \E a \in FirstArg(tk) : a \notin {Fault, W_cd, W_exit}

\* fork fails (shell.c:102-106)
ForkFails(l) ==
  /\ Got(l)
  /\ LineBuffer(l)[1] # NUL
  /\ IsExternal(Tokenized[l])
  /\ status' = 1
  /\ UNCHANGED <<pc, cwd, fs, child, unreaped, shellExit, frame>>

\* fork succeeds: the child has a copy of the buffer, the tokens and the
\* status; the parent goes on to waitpid (shell.c:139-141)
Fork(l) ==
  /\ Got(l)
  /\ LineBuffer(l)[1] # NUL
  /\ LET tk == Tokenized[l]
     IN  /\ IsExternal(tk)
         /\ child' = [NoChild EXCEPT !.stage = "forked", !.buf = tk.buf,
                                     !.toks = tk.toks, !.len = Len(tk.toks),
                                     !.st = status, !.fds = openFds]
  /\ pc' = "wait"
  /\ UNCHANGED <<status, cwd, fs, unreaped, shellExit, frame>>

----------------------------------------------------------------------------
(* The child (shell.c:107-138) and the program it executes *)

Zombie(c, end, why) == [c EXCEPT !.stage = "zombie", !.end = end, !.why = why]

\* the disposition of a signal after execve: a handler is reset to the
\* default, the default and SIG_IGN stay
AfterExec(disposition) ==
  IF disposition \in Dispositions THEN disposition ELSE "SIG_DFL"

\* execvp returned ex: the program runs, or the child reports the failure,
\* cleans up the redirections and exits (shell.c:127-138)
Executed(pr, ex) ==
  IF ex = "ok"
  THEN [pr.c EXCEPT !.stage = "running", !.cmd = pr.cmd, !.argv = pr.argv,
                    !.sigint = AfterExec(pr.c.sigint)]
  ELSE Zombie([CleanupRedirection(PrintError(pr.c)).c EXCEPT
                 !.cmd = pr.cmd, !.argv = pr.argv],
              Exited(EXIT_FAILURE),
              IF ex = "ENOENT" THEN "unrecognized command" ELSE "exec")

\* ParseCommand returned pr (shell.c:121-127): the contexts that can result
Parsed(pr) ==
  IF pr.ret < 0 THEN {Zombie(pr.c, Exited(EXIT_FAILURE), pr.why)}
  ELSE IF pr.null
  THEN {Zombie(pr.c, Killed(SIGSEGV, core), "null command") : core \in BOOLEAN}
  ELSE {Executed(pr, ExecResult(pr.c.fs, pr.c.cwd, pr.cmd))}

\* InitProcess returned ip (shell.c:114-119)
Initialized(ip) ==
  IF ~ip.ok
  THEN {Zombie(PrintError(ip.c), Exited(EXIT_FAILURE), "failed to initialize process")}
  ELSE Parsed(ParseCommand(ip.c, ip.c.st))

\* a child that goes on with the disposition it was forked with
KeepDisposition(ch) == ch

\* sigaction(SIGINT, &oldact, NULL) in the child (shell.c:108-112)
RestoreDisposition(ch) == [ch EXCEPT !.sigint = oldact]

\* the child from fork to execvp: SIGINT's disposition is restored, the
\* Process is set up, the command parsed and executed.  It ends as a zombie
\* that has ended, or runs the program
ChildExecute ==
  /\ child.stage = "forked"
  /\ \E c \in Initialized(InitProcess(Context(RestoreDisposition(child)))) :
       /\ child' = Process(c)
       /\ fs' = c.fs
  /\ UNCHANGED <<pc, status, cwd, unreaped, lastRead, shellExit, frame>>

\* the program has run: echo wrote to descriptor 1 and exits with 0, or with 1
\* when the write failed; another program exits with any code
Ran(c, w) ==
  IF c.cmd = W_echo THEN {Zombie(w.c, Exited(IF w.ok THEN 0 ELSE 1), "exit")}
  ELSE {Zombie(c, Exited(code), "exit") : code \in ExitCodes}

ChildTerminates ==
  /\ child.stage = "running"
  /\ \E c \in Ran(Context(child), Write(Context(child), 1, "out")) :
       /\ child' = Process(c)
       /\ fs' = c.fs
  /\ UNCHANGED <<pc, status, cwd, unreaped, lastRead, shellExit, frame>>

\* a signal ends the child: the program it runs, unless it runs with the
\* signal ignored, or the child before execvp when the signal cannot be caught
ChildKilled(sig) ==
  /\ \/ child.stage = "running" /\ (sig \in Uncatchable \/ child.sigint = "SIG_DFL")
     \/ child.stage = "forked" /\ sig \in Uncatchable
  /\ child' = Zombie(child, Killed(sig, FALSE), "signal")
  /\ UNCHANGED <<pc, status, cwd, fs, unreaped, lastRead, shellExit, frame>>

----------------------------------------------------------------------------
(* The parent after fork (shell.c:139-158) *)

\* a wait after which the interpreter holds every descriptor the child had
\* open, as it would had the line been set up in its own process
WaitReturnsHolding ==
  /\ pc = "wait"
  /\ child.stage = "zombie"
  /\ status' = DecodeWaitStatus(WaitStatus(child.end))
  /\ child' = NoChild
  /\ pc' = "read"
  /\ openFds' = [fd \in DOMAIN child.fds |-> IF child.fds[fd] = 0 THEN 0 ELSE 1]
  /\ UNCHANGED <<cwd, fs, unreaped, lastRead, shellExit, oldact, call>>

\* waitpid returns the child's wait status
WaitReturns ==
  /\ pc = "wait"
  /\ child.stage = "zombie"
  /\ status' = DecodeWaitStatus(WaitStatus(child.end))
  /\ child' = NoChild
  /\ pc' = "read"
  /\ UNCHANGED <<cwd, fs, unreaped, lastRead, shellExit, frame>>

\* SIGINT arrives while the parent is blocked in waitpid: the handler runs
\* (shell.c:617), and with sa_flags = 0 (shell.c:48) waitpid is not restarted:
\* it returns -1, main reports "wait failed" and continues (shell.c:141-145).
\* The child is left behind; what it does later is not followed
WaitInterrupted ==
  /\ pc = "wait"
  /\ child.stage \in {"forked", "running"}
  /\ unreaped < MaxUnreaped
  /\ unreaped' = unreaped + 1
  /\ child' = NoChild
  /\ pc' = "read"
  /\ UNCHANGED <<status, cwd, fs, lastRead, shellExit, frame>>

Next ==
  \/ \E kind \in {"eof", "eintr", "error"} : ReadFails(kind)
  \/ \E l \in Lines : EmptyLine(l)
  \/ \E l \in Lines : TokenizeFails(l)
  \/ \E l \in Lines : ReadFaults(l)
  \/ \E l \in Lines : Cd(l)
  \/ \E l \in Lines : Exit(l)
  \/ \E l \in Lines : ForkFails(l)
  \/ \E l \in Lines : Fork(l)
  \/ ChildExecute
  \/ ChildTerminates
  \/ \E sig \in Signals : ChildKilled(sig)
  \/ WaitReturns
  \/ WaitInterrupted

Spec == Init /\ [][Next]_vars

----------------------------------------------------------------------------
(* Properties *)

\* fgets returned the line l and main tokenized and dispatched it
Handled(l) == ReadFaults(l) \/ Cd(l) \/ Exit(l) \/ ForkFails(l) \/ Fork(l)

\* the strings of the tokens of line l
TokensOf(l) == TokenStrings(Tokenized[l].buf, Tokenized[l].toks)

IsOperator(str) == str \in {OP_in, OP_out, OP_out1, OP_app, OP_err, OP_outerr}

\* the status a child's end stands for: the exit code, or 128 + the signal
EndStatus(end) == IF end.how = "exit" THEN end.n ELSE 128 + end.n

\* C1: handling a line that consists only of spaces executes no command (no
\* fork, no builtin, the interpreter reads on) and leaves the exit status as it
\* was
C1_BlankLineDoesNothing ==
  [][\A g \in 1..MaxGap :
       Handled(Spaces(g)) =>
         /\ status' = status
         /\ cwd' = cwd
         /\ child'.stage = "none"
         /\ pc' = "read"]_vars

\* the lines whose last token is a redirection operator
DanglingLines ==
  {l \in Lines : Len(TokensOf(l)) > 0 /\ IsOperator(TokensOf(l)[Len(TokensOf(l))])}

\* C2 as claimed: a line whose last token is a redirection operator is
\* rejected without a fork, and the exit status becomes the failure value
C2_RejectedBeforeFork ==
  [][\A l \in DanglingLines :
       Handled(l) => child'.stage = "none" /\ status' = EXIT_FAILURE]_vars

\* the left-to-right scan of the token strings strs from index i reaches an
\* operator that no token follows (a token after an operator is its target)
RECURSIVE ScanDangles(_, _)
ScanDangles(strs, i) ==
  IF i > Len(strs) THEN FALSE
  ELSE IF ~IsOperator(strs[i]) THEN ScanDangles(strs, i + 1)
  ELSE IF i = Len(strs) THEN TRUE
  ELSE ScanDangles(strs, i + 2)

\* C2, amended: for a line that is not a builtin's and whose scan reaches a
\* redirection operator that no token follows, a child is forked; the child
\* rejects the line before it executes anything and exits with the failure
\* value, which becomes the exit status when waitpid returns it
C2_RejectedInChild ==
  [][/\ (ChildExecute /\ ScanDangles(TokenStrings(child.buf, child.toks), 1)) =>
          /\ child'.stage = "zombie"
          /\ child'.end = Exited(EXIT_FAILURE)
          /\ child'.argv = <<>>
     /\ (WaitReturns /\ child.why = "missing redirection target") =>
          status' = EXIT_FAILURE]_vars

C2_Witness ==
  /\ pc = "wait"
  /\ child.stage = "zombie"
  /\ child.why = "missing redirection target"

\* C3: `cd .` leaves the working directory as it was and the exit status at 0,
\* whatever the status was before
C3_CdDotStatusZero ==
  [][\A g \in 1..MaxGap :
       Cd(Join(<<W_cd, W_dot>>, g)) => cwd' = cwd /\ status' = 0]_vars

\* C4: when waitpid returns, the status is the child's exit code if it exited
\* and 128 + n if signal n ended it; and the status is always an exit code, a
\* 128 + n, or the failure value 1 of a builtin or of a failed fork
C4_StatusDecoded ==
  /\ [][WaitReturns => status' = EndStatus(child.end)]_vars
  /\ [](status \in ExitCodes \cup {128 + n : n \in Signals \cup {SIGSEGV}} \cup {1})

C4_Witness ==
  /\ pc = "read"
  /\ lastRead.got = "line"
  /\ unreaped = 0
  /\ status = 128 + 9

\* C5: end of input ends the interpreter, an interrupted read is retried, a
\* read error is reported and the interpreter continues
C5_EndOfInputTerminates ==
  [][/\ ReadFails("eof") => pc' = "exited"
     /\ ReadFails("eintr") => pc' = "read" /\ lastRead'.did = "retry"
     /\ ReadFails("error") => pc' = "read" /\ lastRead'.did = "report"]_vars

\* C6: the parent leaves waitpid only when the child has terminated, and then
\* with the status of the child's termination: an interrupted wait is retried
C6_InterruptedWaitRetried ==
  [][(pc = "wait" /\ pc' # "wait") =>
       /\ child.stage = "zombie"
       /\ status' = EndStatus(child.end)]_vars

\* the tokens of strs from index i on that the scan leaves as arguments: the
\* operators and their targets are taken out
RECURSIVE ArgumentsFrom(_, _)
ArgumentsFrom(strs, i) ==
  IF i > Len(strs) THEN <<>>
  ELSE IF IsOperator(strs[i]) THEN ArgumentsFrom(strs, i + 2)
  ELSE <<strs[i]>> \o ArgumentsFrom(strs, i + 1)

\* the arguments with each one that is exactly $? replaced by the decimal
\* string of the status st
Substituted(argv, st) ==
  [k \in DOMAIN argv |-> IF argv[k] = W_var THEN DecimalString(st) ELSE argv[k]]

\* C7: when the command of a line is echo, the arguments it is executed with
\* are the line's arguments with every token equal to $? replaced by the
\* decimal string of the status of the line before, and the others as they are
C7_EveryVariableReplaced ==
  [][(ChildExecute /\ child'.stage = "running" /\ child'.cmd = W_echo) =>
       child'.argv =
         Substituted(ArgumentsFrom(TokenStrings(child.buf, child.toks), 1), child.st)]_vars

\* the redirections of the token strings strs from index i on, in scan order
RECURSIVE RedirectionsFrom(_, _)
RedirectionsFrom(strs, i) ==
  IF i >= Len(strs) THEN <<>>
  ELSE IF IsOperator(strs[i])
       THEN <<[op |-> strs[i], target |-> strs[i + 1]]>> \o RedirectionsFrom(strs, i + 2)
       ELSE RedirectionsFrom(strs, i + 1)

\* the standard descriptors an operator redirects
SlotsOf(op) ==
  IF op = OP_in THEN {0}
  ELSE IF op = OP_err THEN {2}
  ELSE IF op = OP_outerr THEN {1, 2}
  ELSE {1}

\* the index of the last redirection of reds for descriptor fd, 0 for none
LastFor(reds, fd) ==
  LET on == {k \in DOMAIN reds : fd \in SlotsOf(reds[k].op)}
  IN  IF on = {} THEN 0 ELSE CHOOSE k \in on : \A j \in on : j <= k

\* C8: when a program is executed, every target of the line was opened, in
\* order from left to right (output targets exist, and are empty unless
\* opened for appending); each standard descriptor refers to the last target
\* redirected to it, or to the terminal; no descriptor refers to an earlier
\* target.  What echo writes goes to the file descriptor 1 refers to only
C8_LastRedirectionWins ==
  [][/\ (ChildExecute /\ child'.stage = "running") =>
          LET reds == RedirectionsFrom(TokenStrings(child.buf, child.toks), 1)
          IN  /\ Len(child'.descs) = 1 + Len(reds)
              /\ \A k \in DOMAIN reds :
                   LET d == child'.descs[k + 1]
                   IN  /\ d.path = Canon(cwd, reds[k].target)
                       /\ reds[k].op # OP_in => d.path \in DOMAIN fs'
                       /\ reds[k].op \notin {OP_in, OP_app} => fs'[d.path] = <<>>
              /\ \A fd \in 0..2 : child'.fds[fd] = 1 + LastFor(reds, fd)
              /\ \A fd \in 3..(FdLimit - 1) : child'.fds[fd] \in {0, 1}
     /\ (ChildTerminates /\ child.cmd = W_echo) =>
          \A p \in DOMAIN fs :
            fs'[p] # fs[p] => p = child.descs[child.fds[1]].path]_vars

C8_Witness ==
  /\ child.stage = "zombie"
  /\ child.cmd = W_echo
  /\ Len(child.descs) = 3
  /\ child.descs[2].path = W_a
  /\ child.descs[2].mode = "w"
  /\ child.descs[3].path = W_b
  /\ child.fds[1] = 3
  /\ child.fds[2] = 1
  /\ fs[W_a] = <<>>
  /\ fs[W_b] = <<"out">>

\* C9: the interpreter ends only by the builtin exit of a line whose command
\* is exit (it never ends at end of input); and when waitpid returns a child
\* that did not find its command, the status is not 0 and the interpreter
\* reads the next line
C9_EndsOnlyOnExit ==
  [][/\ pc' \notin {"read", "wait"} =>
          \E l \in Lines :
            Exit(l) /\ Len(TokensOf(l)) > 0 /\ TokensOf(l)[1] = W_exit
     /\ (WaitReturns /\ child.why = "unrecognized command") =>
          status' # 0 /\ pc' = "read"]_vars

\* the lines whose first token is exit
ExitLines == {l \in Lines : Len(TokensOf(l)) > 0 /\ TokensOf(l)[1] = W_exit}

\* C10: exit ends the interpreter with the status as it is, which is 0 when
\* nothing was read before
C10_ExitsWithStatus ==
  /\ [][\A l \in ExitLines : Exit(l) => pc' = "exited" /\ shellExit' = status]_vars
  /\ [](pc = "exited" => shellExit = status)
  /\ [][(lastRead.got = "none" /\ pc' = "exited") => shellExit' = 0]_vars

C10_Witness ==
  /\ pc = "exited"
  /\ shellExit = 128 + 9

\* the resolved command name of line l is a builtin's: the first token left
\* when the operators and their targets are taken out is cd or exit
ResolvesToBuiltin(l) ==
  /\ Len(ArgumentsFrom(TokensOf(l), 1)) > 0
  /\ ArgumentsFrom(TokensOf(l), 1)[1] \in {W_cd, W_exit}

\* C11: a line with tokens is handled by a builtin exactly when its resolved
\* command name is cd or exit: no child is forked for such a line, and a line
\* a builtin handles resolves to that builtin
C11_BuiltinByResolvedName ==
  [][\A l \in Lines :
       Len(TokensOf(l)) > 0 =>
         /\ Fork(l) => ~ResolvesToBuiltin(l)
         /\ (Cd(l) \/ Exit(l)) => ResolvesToBuiltin(l)]_vars

----------------------------------------------------------------------------
(* Reading one long line (shell.c:40, 57-71).  The line is given by the      *)
(* number of its characters, none of them a space, before the newline; a     *)
(* stream is the number of characters left before the newline (left) and     *)
(* whether the newline is still to be read (nl).                             *)

kInputMax == 1024

\* fgets(cmdline, size, stdin): at most size - 1 characters, up to and with
\* the newline; len is the length of the string in cmdline
Fgets(stream, size) ==
  IF stream.left + 1 <= size - 1
  THEN [len |-> stream.left + 1, stream |-> [left |-> 0, nl |-> FALSE]]
  ELSE [len |-> size - 1,
        stream |-> [left |-> stream.left - (size - 1), nl |-> TRUE]]

\* cmdline[strlen(cmdline) - 1] = '\0' (shell.c:67): the length that is left
StripLast(len) == len - 1

\* the command lines handled so far, each by its length, after a string of
\* length len went through shell.c:67-71: an empty one is skipped
HandledAfter(handled, len) ==
  IF StripLast(len) = 0 THEN handled ELSE Append(handled, StripLast(len))

InitRead ==
  /\ InitShell
  /\ call \in {[fn |-> "fgets", line |-> n, stdin |-> [left |-> n, nl |-> TRUE],
                handled |-> <<>>] : n \in 0..MaxLineLen}

\* one turn of the loop of main on what is left of the line
ReadLine ==
  /\ call.fn = "fgets"
  /\ call.stdin.nl
  /\ LET got == Fgets(call.stdin, kInputMax)
     IN  call' = [call EXCEPT !.stdin = got.stream,
                              !.handled = HandledAfter(call.handled, got.len)]
  /\ UNCHANGED <<pc, status, cwd, fs, child, unreaped, lastRead, shellExit,
                 oldact, openFds>>

NextRead == ReadLine

SpecRead == InitRead /\ [][NextRead]_vars

\* the smaller of two numbers
Min(a, b) == IF a <= b THEN a ELSE b

\* C12: of one input line, whatever its length, at most one command line is
\* handled, and when the whole line was consumed that command line is made of
\* the characters that fit the buffer: all of them, or the first
\* kInputMax - 1
C12_ExcessDiscarded ==
  call.fn = "fgets" =>
    /\ Len(call.handled) <= 1
    /\ (~call.stdin.nl /\ call.line > 0) =>
         call.handled = <<Min(call.line, kInputMax - 1)>>

\* the lines whose first token is cd
CdLines == {l \in Lines : Len(TokensOf(l)) > 0 /\ TokensOf(l)[1] = W_cd}

\* C13: a cd line with no argument sets the status to 1 and attempts no
\* directory change (main reports the missing operand); a cd line whose
\* argument is no directory that can be entered sets the status to 1 and
\* leaves the working directory as it was; either way no child is forked and
\* main reads the next line
C13_CdFailure ==
  [][\A l \in CdLines :
       Cd(l) =>
         /\ Len(TokensOf(l)) < 2 =>
              /\ status' = 1
              /\ cwd' = cwd
              /\ lastRead'.did = "cd: missing operand"
              /\ child' = NoChild
              /\ pc' = "read"
         /\ (Len(TokensOf(l)) >= 2 /\ Canon(cwd, TokensOf(l)[2]) \notin Dirs) =>
              /\ status' = 1
              /\ cwd' = cwd
              /\ lastRead'.did = "cd: chdir failed"
              /\ child' = NoChild
              /\ pc' = "read"]_vars

C13_Witness ==
  /\ pc = "read"
  /\ lastRead.did = "cd: chdir failed"
  /\ status = 1
  /\ cwd = W_slashd
  /\ child = NoChild

----------------------------------------------------------------------------
(* ParseCommand and CleanupRedirection on their own: the child of a line of  *)
(* up to MaxTokens tokens, in a directory that holds no file, parses the     *)
(* line (shell.c:114-125); when execvp then fails it cleans up               *)
(* (shell.c:136), and dup2 can fail for any of the standard descriptors.     *)

\* the tokens the lines are made of
ParseWords == {W_t, W_a, OP_out, OP_in, OP_err}

RECURSIVE WordLists(_)
WordLists(n) ==
  IF n = 0 THEN {<<>>}
  ELSE WordLists(n - 1) \cup
       {Append(ws, w) : ws \in {x \in WordLists(n - 1) : Len(x) = n - 1}, w \in ParseWords}

\* the child forked for the tokens ws, and the world around it
ParseContext(ws) ==
  LET tk == TokenizeCommandLine(LineBuffer(Join(ws, 1)))
  IN  [NoChild EXCEPT !.stage = "forked", !.buf = tk.buf, !.toks = tk.toks,
                      !.len = Len(tk.toks)]
        @@ [fs |-> <<>>, cwd |-> W_slash, nodup |-> {}]

\* the tokens the array of context c holds
TokensLeft(c) == [k \in 1..c.len |-> StrAt(c.buf, c.toks[k])]

InitParse ==
  /\ InitShell
  /\ call \in {[fn |-> "ParseCommand", stage |-> "start", words |-> ws, ret |-> 0,
                c |-> ParseContext(ws), before |-> ParseContext(ws)] :
                ws \in WordLists(MaxTokens) \ {<<>>}}

\* InitProcess, then ParseCommand
ParseCall ==
  /\ call.fn = "ParseCommand"
  /\ call.stage = "start"
  /\ LET pr == ParseCommand(InitProcess(call.c).c, 0)
     IN  call' = [call EXCEPT !.stage = "parsed", !.ret = pr.ret, !.c = pr.c,
                              !.before = pr.c]
  /\ UNCHANGED <<pc, status, cwd, fs, child, unreaped, lastRead, shellExit,
                 oldact, openFds>>

\* CleanupRedirection after a successful ParseCommand, with dup2 failing for
\* the descriptors of failing
CleanupCall ==
  /\ call.fn = "ParseCommand"
  /\ call.stage = "parsed"
  /\ call.ret = 0
  /\ \E failing \in SUBSET {0, 1, 2} :
       LET r == CleanupRedirection([call.c EXCEPT !.nodup = failing])
       IN  call' = [call EXCEPT !.stage = "cleaned", !.ret = r.ret, !.c = r.c]
  /\ UNCHANGED <<pc, status, cwd, fs, child, unreaped, lastRead, shellExit,
                 oldact, openFds>>

NextParse == ParseCall \/ CleanupCall

SpecParse == InitParse /\ [][NextParse]_vars

\* C14: after CleanupRedirection, every standard descriptor whose snapshot
\* was captured and onto which dup2 does not fail is the snapshot's stream
\* again and its snapshot is closed, also when dup2 failed for another one;
\* and the result is -1 exactly when dup2 failed for a captured one
C14_CleanupBestEffort ==
  (call.fn = "ParseCommand" /\ call.stage = "cleaned") =>
    LET was == call.before
        now == call.c
        saved == [fd \in {0, 1, 2} |->
                    was.proc[<<"orig_stdin", "orig_stdout", "orig_stderr">>[fd + 1]]]
    IN  /\ \A fd \in {0, 1, 2} :
             (saved[fd] >= 0 /\ fd \notin now.nodup) =>
               /\ now.fds[fd] = was.fds[saved[fd]]
               /\ now.fds[saved[fd]] = 0
        /\ (call.ret < 0) <=> (\E fd \in {0, 1, 2} : saved[fd] >= 0 /\ fd \in now.nodup)

\* the ways the redirection scan gives up
ScanFailures == {"failed open", "missing redirection target", "failed redirection"}

\* C15: when the scan of the child gives up, whatever redirections it had
\* applied, the three standard descriptors are the child's original streams
\* again and the one diagnostic is on the terminal, not in a file
C15_UnwoundBeforeDiagnostic ==
  [][(ChildExecute /\ child'.why \in ScanFailures) =>
       /\ \A fd \in {0, 1, 2} : child'.fds[fd] = child.fds[fd]
       /\ child'.tty = <<"diag">>
       /\ \A p \in DOMAIN fs' : fs'[p] # <<>> => (p \in DOMAIN fs /\ fs'[p] = fs[p])]_vars

\* every operator of strs that the scan from index i reaches has a target
\* that is opened for writing
RECURSIVE AllWritten(_, _)
AllWritten(strs, i) ==
  IF i > Len(strs) THEN TRUE
  ELSE IF ~IsOperator(strs[i]) THEN AllWritten(strs, i + 1)
  ELSE i < Len(strs) /\ strs[i] # OP_in /\ AllWritten(strs, i + 2)

C17_EmptyCommandAfterStripping ==
  [][(/\ ChildExecute
      /\ child.len > 0
      /\ ~ScanDangles(TokenStrings(child.buf, child.toks), 1)
      /\ ArgumentsFrom(TokenStrings(child.buf, child.toks), 1) = <<>>) =>
       /\ child'.why # "null command"
       /\ child'.end.how # Killed(SIGSEGV, FALSE).how
       /\ child'.cmd = W_empty]_vars

\* C18: whenever main is about to read a line, no child of an earlier line is
\* left: none is running and none is unreaped
C18_OneLineAtATime ==
  pc = "read" => (child.stage = "none" /\ unreaped = 0)

C20_NoDescriptorCarriedOver ==
  /\ [](openFds = ShellFds)
  /\ [][(pc = "read" /\ pc' = "wait") =>
          (child'.stage = "forked" /\ child'.fds = ShellFds /\ child'.descs = <<TtyDesc>>)]_vars

C20_Witness ==
  /\ pc = "wait"
  /\ child.stage = "forked"
  /\ child.fds = ShellFds
  /\ openFds = ShellFds
  /\ W_a \in DOMAIN fs
  /\ status = 1

----------------------------------------------------------------------------
(* The token array of a line of plain tokens (shell.c:228-247, 654-736).     *)
(* A DynamicArray is its recorded size and len, the number of slots its      *)
(* data really has (slots), and the indexes written so far (wrote).          *)

kDefaultArraySize == 16

\* InitDynamicArray (shell.c:654-670)
InitDynamicArray(size) ==
  [size |-> size, slots |-> size, len |-> 0, wrote |-> {}]

\* ResizeDynamicArray (shell.c:727-736); nomem: reallocarray returns NULL
ResizeDynamicArray(da, new_size, nomem) ==
  IF nomem THEN [ret |-> -1, da |-> da]
  ELSE [ret |-> 0, da |-> [da EXCEPT !.slots = new_size, !.size = new_size]]

\* the memcpy and the increment of AppendElement (shell.c:709-710)
Stored(da) ==
  [ret |-> 0, da |-> [da EXCEPT !.wrote = @ \cup {da.len}, !.len = da.len + 1]]

\* the array after ResizeDynamicArray returned r (shell.c:702-705)
Resized(da, r) ==
  IF r.ret < 0 THEN [ret |-> -1, da |-> da]
  ELSE Stored([r.da EXCEPT !.size = r.da.size * 2])

\* AppendElement (shell.c:700-713)
AppendElement(da, nomem) ==
  IF da.len >= da.size THEN Resized(da, ResizeDynamicArray(da, da.size * 2, nomem))
  ELSE Stored(da)

\* proc->args[da_args->len] = NULL (shell.c:369-370); an empty array is left
\* alone (shell.c:267-271)
Terminated(da) ==
  IF da.len = 0 THEN da ELSE [da EXCEPT !.wrote = @ \cup {da.len}]

\* after a write past the slots the process goes on, or faults
AfterWrite(da, stage) ==
  IF \E i \in da.wrote : i >= da.slots THEN {stage, "fault"} ELSE {stage}

InitArray ==
  /\ InitShell
  /\ call \in {[fn |-> "AppendElement", stage |-> "tokenizing", tokens |-> n,
                left |-> n, da |-> InitDynamicArray(kDefaultArraySize)] :
                n \in 0..MaxArgs}

\* strtok found one more token: TokenizeCommandLine appends it
AppendCall ==
  /\ call.fn = "AppendElement"
  /\ call.stage = "tokenizing"
  /\ call.left > 0
  /\ \E nomem \in BOOLEAN :
       LET r == AppendElement(call.da, nomem)
       IN  \E stage \in IF r.ret < 0 THEN {"failed"} ELSE AfterWrite(r.da, "tokenizing") :
             call' = [call EXCEPT !.da = r.da, !.left = call.left - 1, !.stage = stage]
  /\ UNCHANGED <<pc, status, cwd, fs, child, unreaped, lastRead, shellExit,
                 oldact, openFds>>

\* no token is left: the child's ParseCommand ends the argument vector
TerminateCall ==
  /\ call.fn = "AppendElement"
  /\ call.stage = "tokenizing"
  /\ call.left = 0
  /\ \E stage \in AfterWrite(Terminated(call.da), "parsed") :
       call' = [call EXCEPT !.da = Terminated(call.da), !.stage = stage]
  /\ UNCHANGED <<pc, status, cwd, fs, child, unreaped, lastRead, shellExit,
                 oldact, openFds>>

NextArray == AppendCall \/ TerminateCall

SpecArray == InitArray /\ [][NextArray]_vars

\* C21: the size the token array records is the number of slots it has, and
\* every index written, by AppendElement and by the terminator of
\* ParseCommand, is below that number
C21_SizeIsAllocated ==
  call.fn = "AppendElement" =>
    /\ call.da.size = call.da.slots
    /\ \A i \in call.da.wrote : i < call.da.slots

----------------------------------------------------------------------------
(* ReplaceExitStatusVariable on its own (shell.c:596-607), on the token      *)
(* array of an echo line as TokenizeCommandLine left it.                     *)

\* the statuses main can hold when a line is read (shell.c:139-154)
Statuses == 0..255

EchoWords == {W_var, W_a, W_xvar}

\* the argument lists of 1..n words
RECURSIVE EchoArgs(_)
EchoArgs(n) ==
  IF n = 1 THEN {<<w>> : w \in EchoWords}
  ELSE EchoArgs(n - 1) \cup
       {Append(ws, w) : ws \in {x \in EchoArgs(n - 1) : Len(x) = n - 1}, w \in EchoWords}

\* the line buffer and token array of the line echo ws, g spaces between tokens
EchoContext(ws, g) ==
  LET tk == TokenizeCommandLine(LineBuffer(Join(<<W_echo>> \o ws, g)))
  IN  [buf |-> tk.buf, toks |-> tk.toks, len |-> Len(tk.toks)]

InitReplace ==
  /\ InitShell
  /\ call \in {[fn |-> "ReplaceExitStatusVariable", stage |-> "start", st |-> st,
                c |-> EchoContext(ws, g), before |-> EchoContext(ws, g)] :
                ws \in EchoArgs(MaxEchoArgs), g \in 1..MaxGap, st \in Statuses}

\* ParseCommand found the command echo (shell.c:365-367)
ReplaceCall ==
  /\ call.fn = "ReplaceExitStatusVariable"
  /\ call.stage = "start"
  /\ call' = [call EXCEPT
               !.stage = "replaced",
               !.c.buf = ReplaceExitStatusVariable(call.c.buf, call.c.toks,
                                                   call.c.len, call.st)]
  /\ UNCHANGED <<pc, status, cwd, fs, child, unreaped, lastRead, shellExit,
                 oldact, openFds>>

NextReplace == ReplaceCall

SpecReplace == InitReplace /\ [][NextReplace]_vars

\* C22: after ReplaceExitStatusVariable, whatever the status and the tokens,
\* every token that was not $? has the content it had before, the token that
\* follows a $? in the line buffer included
C22_OtherTokensUntouched ==
  (call.fn = "ReplaceExitStatusVariable" /\ call.stage = "replaced") =>
    \A i \in 1..call.c.len :
      StrAt(call.before.buf, call.before.toks[i]) # W_var =>
        StrAt(call.c.buf, call.c.toks[i]) = StrAt(call.before.buf, call.before.toks[i])

=============================================================================
